---- MODULE Spec2Model ----
(***************************************************************************)
(* Model of src/Kaspay.py: a Streamlit page that keeps a ledger of         *)
(* payment orders (st.session_state.payment_orders) and a price cache      *)
(* (st.session_state.crypto_prices).  Every user interaction re-executes   *)
(* the whole script from top to bottom with at most one button pressed;    *)
(* st.rerun() abandons the current run and executes the script once more   *)
(* with no button pressed, unless another event arrives first: then the    *)
(* next run is the run of that event.  One action of the model is one run  *)
(* of the script, from its start to its end or to the st.rerun() it stops  *)
(* at.                                                                     *)
(*                                                                         *)
(* Units.  Money is in cents (the amount widget steps by 0.01), prices are *)
(* in cents per coin, coin amounts are decimal numbers with `decimals'     *)
(* fractional digits kept as [neg, whole, frac].  Time is in ticks, a      *)
(* minute being TicksPerMinute ticks; while one interaction executes the   *)
(* clock may advance by up to MaxDrift ticks, which is less than a minute. *)
(***************************************************************************)
EXTENDS Integers, FiniteSets, Sequences, TLC

VARIABLES
    payment_orders,   \* st.session_state.payment_orders: order id -> order
    crypto_prices,    \* st.session_state.crypto_prices: crypto -> price
    filter_crypto,    \* value of the "filter by crypto" selectbox
    now,              \* the wall clock, datetime.now()
    nextId,           \* number of uuid4 order ids handed out so far, plus one
    rerun_requested,  \* where the last run stopped at st.rerun(), if it did
    order_rows,       \* order ids whose row of buttons is on the page
    confirm_buttons,  \* orders whose mark-confirmed button is on the page
    act               \* the last interaction (history, for stating properties)

vars == <<payment_orders, crypto_prices, filter_crypto, now, nextId,
          rerun_requested, order_rows, confirm_buttons, act>>

----------------------------------------------------------------------------
(* Bounds of the model *)

MaxOrders == 2        \* orders created in one behaviour of the page
MaxPriced == 1        \* orders created while the price API is followed
MaxDirect == 1        \* orders created by create_payment_order on its own
MaxDrift == 1         \* ticks the clock may advance inside one interaction
EarlyTicks == 0       \* the user interacts at ticks 0..EarlyTicks, and again
LateTicks == 1        \* from minute 29 to minute 31 plus LateTicks ticks

(* Program constants *)

TTLMinutes == 30
Decimals == 8
MinAmount == 1
DefaultAmount == 1000
MaxAmount == 1000000

TicksPerMinute == MaxDrift + 1
TTL == TTLMinutes * TicksPerMinute
LateStart == (TTLMinutes - 1) * TicksPerMinute
MaxTime == (TTLMinutes + 1) * TicksPerMinute + LateTicks

Cryptos == {"kaspa", "dogecoin", "litecoin"}

crypto_configs ==
    [c \in Cryptos |-> [coingecko_id |-> c, decimals |-> Decimals]]

InitialPrices == [c \in Cryptos |->
    CASE c = "kaspa" -> 15 [] c = "dogecoin" -> 8 [] c = "litecoin" -> 7500]

(* A later quote of the price API *)
LaterQuote == [c \in Cryptos |->
    CASE c = "kaspa" -> 16 [] c = "dogecoin" -> 7 [] c = "litecoin" -> 8000]

Restrict(f, S) == [x \in S |-> f[x]]

(* What requests.get can produce: an exception or timeout, a non-200       *)
(* response, or a 200 response whose JSON holds a price for some coins.    *)
Responses ==
    { [kind |-> "exception", data |-> <<>>],
      [kind |-> "non200", data |-> <<>>],
      [kind |-> "ok", data |-> LaterQuote],
      [kind |-> "ok", data |-> InitialPrices],
      [kind |-> "ok", data |-> Restrict(LaterQuote, {"kaspa"})] }

(* A quote at which the quotient of an odd number of cents is a tie: the   *)
(* ninth digit after the point is a 5 and no digit follows it              *)
TieQuote == [c \in Cryptos |-> 512]

(* answers of the price API for create_payment_order called on its own *)
DirectResponses == Responses \cup {[kind |-> "ok", data |-> TieQuote]}

AmountInputs == {MinAmount, DefaultAmount}
(* arguments for create_payment_order called on its own *)
DirectAmounts == {-DefaultAmount, -MinAmount, 0, MinAmount, DefaultAmount, MaxAmount}
FilterOptions == {"all"} \cup Cryptos
StatusSet == {"pending", "confirmed", "expired", "failed"}

----------------------------------------------------------------------------
(* Pure functions *)

RECURSIVE Pow10(_)
Pow10(n) == IF n = 0 THEN 1 ELSE 10 * Pow10(n - 1)

(* n more digits of the long division r / p: <<digits so far, remainder>> *)
RECURSIVE LongDiv(_, _, _, _)
LongDiv(f, r, p, n) ==
    IF n = 0 THEN <<f, r>>
    ELSE LongDiv(f * 10 + ((r * 10) \div p), (r * 10) % p, p, n - 1)

RoundTruncating(amount, price, decimals) ==
    LET a == IF amount < 0 THEN -amount ELSE amount
        d == LongDiv(0, a % price, price, decimals)
    IN  [neg |-> amount < 0, whole |-> a \div price, frac |-> d[1]]

(* round(amount / price, decimals).  The quotient is a float, and round   *)
(* gives the number with `decimals' digits nearest to that float.  Where   *)
(* the exact quotient is half way between two such numbers the float is    *)
(* the tie itself or lies a rounding error to one side of it; tie_up says  *)
(* that the result is the upper neighbour.  For the amounts the amount     *)
(* widget allows the float's error is too small to matter anywhere else.   *)
Round(amount, price, decimals, tie_up) ==
    LET a == IF amount < 0 THEN -amount ELSE amount
        q == a \div price
        d == LongDiv(0, a % price, price, decimals)
        up == \/ 2 * d[2] > price
              \/ 2 * d[2] = price /\ tie_up
        f == IF up THEN d[1] + 1 ELSE d[1]
        carry == f = Pow10(decimals)
    IN  [neg |-> amount < 0,
         whole |-> IF carry THEN q + 1 ELSE q,
         frac |-> IF carry THEN 0 ELSE f]

get_crypto_prices_stale(resp, cache) ==
    IF resp.kind = "ok"
    THEN [c \in Cryptos |->
            IF crypto_configs[c].coingecko_id \in DOMAIN resp.data
            THEN resp.data[crypto_configs[c].coingecko_id]
            ELSE InitialPrices[c]]
    ELSE InitialPrices

get_crypto_prices(resp, cache) ==
    IF resp.kind = "ok"
    THEN [c \in Cryptos |->
            IF crypto_configs[c].coingecko_id \in DOMAIN resp.data
            THEN resp.data[crypto_configs[c].coingecko_id]
            ELSE cache[c]]
    ELSE cache

create_payment_order_truncating(order_id, amount_usd, crypto_type, prices, t1, t2, tie_up) ==
    [id |-> order_id,
     amount_usd |-> amount_usd,
     crypto_type |-> crypto_type,
     crypto_amount |-> RoundTruncating(amount_usd, prices[crypto_type],
                                       crypto_configs[crypto_type].decimals),
     crypto_price |-> prices[crypto_type],
     status |-> "pending",
     created_at |-> t1,
     expires_at |-> t2 + TTL]

(* t1 and t2 are the two readings of datetime.now() *)
create_payment_order(order_id, amount_usd, crypto_type, prices, t1, t2, tie_up) ==
    [id |-> order_id,
     amount_usd |-> amount_usd,
     crypto_type |-> crypto_type,
     crypto_amount |-> Round(amount_usd, prices[crypto_type],
                             crypto_configs[crypto_type].decimals, tie_up),
     crypto_price |-> prices[crypto_type],
     status |-> "pending",
     created_at |-> t1,
     expires_at |-> t2 + TTL]

check_payment_status_error(crypto_type) == "error"

(* the stub: 'error' only if looking the crypto up raises *)
check_payment_status(crypto_type) ==
    IF crypto_type \in DOMAIN crypto_configs THEN "pending" ELSE "error"

----------------------------------------------------------------------------
(* The order list of the page *)

Remove(ords, ids) == Restrict(ords, DOMAIN ords \ ids)

Put(ords, order) ==
    [id \in DOMAIN ords \cup {order.id} |->
        IF id = order.id THEN order ELSE ords[id]]

UpdateStatusRepricing(order, status) ==
    [order EXCEPT !.status = status,
                  !.crypto_price = crypto_prices[order.crypto_type]]

(* st.session_state.payment_orders[order_id]['status'] = status *)
UpdateStatus(order, status) == [order EXCEPT !.status = status]

(* the orders the list shows under the filter *)
Shown(ords, f) ==
    {id \in DOMAIN ords : f = "all" \/ ords[id].crypto_type = f}

(* the automatic expiry check made when an order is rendered at time t *)
AutoExpire(order, t) ==
    IF order.status = "pending" /\ t > order.expires_at
    THEN UpdateStatus(order, "expired")
    ELSE order

RenderUpToButtonsFirst(ords, f, rd, last) ==
    [id \in DOMAIN ords |->
        IF id \in Shown(ords, f) /\ id < last
        THEN AutoExpire(ords[id], rd[id])
        ELSE ords[id]]

(* The list rendered for the shown orders up to order `last' (dict order   *)
(* is insertion order, which is the order of the ids); rd[id] is the clock *)
(* reading made for order id.                                              *)
RenderUpTo(ords, f, rd, last) ==
    [id \in DOMAIN ords |->
        IF id \in Shown(ords, f) /\ id <= last
        THEN AutoExpire(ords[id], rd[id])
        ELSE ords[id]]

RenderAll(ords, f, rd) == RenderUpTo(ords, f, rd, MaxOrders)

SweepExpiredInclusive(ords, rd) ==
    [id \in DOMAIN ords |->
        IF ords[id].status = "pending" /\ rd[id] >= ords[id].expires_at
        THEN UpdateStatus(ords[id], "expired")
        ELSE ords[id]]

SweepExpiredEscalating(ords, rd) ==
    [id \in DOMAIN ords |->
        IF ords[id].status # "confirmed" /\ rd[id] > ords[id].expires_at
        THEN UpdateStatus(ords[id],
                 IF ords[id].status = "pending" THEN "expired" ELSE "failed")
        ELSE ords[id]]

(* the loop of the "check all orders" button *)
SweepExpired(ords, rd) ==
    [id \in DOMAIN ords |->
        IF ords[id].status = "pending" /\ rd[id] > ords[id].expires_at
        THEN UpdateStatus(ords[id], "expired")
        ELSE ords[id]]

(* del st.session_state.payment_orders[order_id]: KeyError if absent *)
DeleteKey(ords, id) ==
    IF id \in DOMAIN ords
    THEN [raised |-> FALSE, orders |-> Remove(ords, {id})]
    ELSE [raised |-> TRUE, orders |-> ords]

DeleteButtonMadeAlways(ords, f, id) == TRUE

(* a run makes the buttons of an order in the pass of the list loop for    *)
(* that order, so only for the orders the list shows                       *)
DeleteButtonMade(ords, f, id) == id \in Shown(ords, f)

----------------------------------------------------------------------------
(* The clock inside one interaction: 2 * MaxOrders readings that never go  *)
(* back, as offsets from the time the interaction starts.  The first       *)
(* MaxOrders are the readings of the run the click starts (one per order   *)
(* of a loop, or the two readings create makes), the others those of the   *)
(* list rendered last.                                                     *)

NReads == 2 * MaxOrders

DriftPatterns ==
    {s \in [1..NReads -> 0..MaxDrift] : \A i \in 1..(NReads - 1) : s[i] <= s[i + 1]}

NoDrift == {[i \in 1..NReads |-> 0]}

R1(s) == [id \in 1..MaxOrders |-> now + s[id]]
R2(s) == [id \in 1..MaxOrders |-> now + s[MaxOrders + id]]

Active(t) == t \in 0..EarlyTicks \/ t \in LateStart..MaxTime

(* What the environment of a specification draws from: the amounts typed   *)
(* into the amount widget, the answers of the price API, the advance of    *)
(* the clock inside an interaction, and how many orders are created.       *)
Failure == [kind |-> "exception", data |-> <<>>]

LifeEnv ==
    [amounts |-> {DefaultAmount}, responses |-> {Failure},
     patterns |-> DriftPatterns, orders |-> MaxOrders]

PriceEnv ==
    [amounts |-> AmountInputs, responses |-> Responses, patterns |-> NoDrift,
     orders |-> MaxPriced]

Act(op, id, note, hit) ==
    [op |-> op, id |-> id, t0 |-> now, note |-> note, hit |-> hit,
     run |-> "click"]

FetchKind(resp) == IF resp.kind = "ok" THEN "ok" ELSE "fail"

(* the mark-confirmed buttons a list rendered to its end puts on the page *)
ConfirmButtons(ords, f) ==
    {id \in Shown(ords, f) : ords[id].status = "pending"}

(* the mark-confirmed buttons on the page when a run stops at st.rerun()   *)
(* before it renders order `upto'.  A stopped run removes nothing from the *)
(* page: the buttons the page showed stay, those the run made for the      *)
(* orders it rendered are added; the button of an order no longer in the   *)
(* ledger is never made again                                              *)
ButtonsLeft(ords, f, upto) ==
    (confirm_buttons \cup {id \in ConfirmButtons(ords, f) : id < upto})
        \cap DOMAIN ords

----------------------------------------------------------------------------
(* Initial state: the session state set up on the first run *)

Init ==
    /\ payment_orders = <<>>
    /\ crypto_prices = InitialPrices
    /\ filter_crypto = "all"
    /\ now = 0
    /\ nextId = 1
    /\ rerun_requested = "no"
    /\ order_rows = {}
    /\ confirm_buttons = {}
    /\ act = [op |-> "init", id |-> 0, t0 |-> 0, note |-> "none", hit |-> {},
              run |-> "click"]

(* time passes with no interaction; a requested rerun does not wait *)
Wait ==
    /\ rerun_requested = "no"
    /\ \E t \in (now + 1)..MaxTime :
        /\ Active(t)
        /\ now' = t
        /\ act' = [op |-> "wait", id |-> 0, t0 |-> t, note |-> "none",
                   hit |-> {}, run |-> "click"]
    /\ UNCHANGED <<payment_orders, crypto_prices, filter_crypto, nextId,
                   rerun_requested, order_rows, confirm_buttons>>

(* the run that follows st.rerun() when no event arrives before it: the    *)
(* script runs once with no button pressed.  A run that stopped above the  *)
(* filter selectbox did not make that widget; whether the widget then      *)
(* keeps its value or starts again from its default 'all' (index=0) is     *)
(* the Streamlit runtime's doing, so both are drawn.                       *)
Rerun(E) ==
    /\ rerun_requested # "no"
    /\ \E r1 \in E.responses, s \in E.patterns,
          f \in IF rerun_requested = "above_filter"
                THEN {filter_crypto, "all"} ELSE {filter_crypto} :
        /\ filter_crypto' = f
        /\ crypto_prices' = get_crypto_prices(r1, crypto_prices)
        /\ payment_orders' = RenderAll(payment_orders, f, R2(s))
        /\ now' = now + s[NReads]
    /\ order_rows' = Shown(payment_orders', filter_crypto')
    /\ confirm_buttons' = ConfirmButtons(payment_orders', filter_crypto')
    /\ rerun_requested' = "no"
    /\ act' = [act EXCEPT !.run = "rerun"]
    /\ UNCHANGED nextId

(* a widget is edited, or a button is clicked that has no handler body or  *)
(* that the run does not make again: the script runs once                  *)
EditWidget(E) ==
    /\ Active(now)
    /\ \E r1 \in E.responses, s \in E.patterns :
        /\ crypto_prices' = get_crypto_prices(r1, crypto_prices)
        /\ payment_orders' = RenderAll(payment_orders, filter_crypto, R2(s))
        /\ now' = now + s[NReads]
        /\ act' = Act("edit", 0, "none", {})
    /\ order_rows' = Shown(payment_orders', filter_crypto)
    /\ confirm_buttons' = ConfirmButtons(payment_orders', filter_crypto)
    /\ rerun_requested' = "no"
    /\ UNCHANGED <<filter_crypto, nextId>>

(* the filter selectbox is changed: the script runs once *)
SelectFilter(E) ==
    /\ Active(now)
    /\ \E f \in FilterOptions \ {filter_crypto}, r1 \in E.responses,
          s \in E.patterns :
        /\ filter_crypto' = f
        /\ crypto_prices' = get_crypto_prices(r1, crypto_prices)
        /\ payment_orders' = RenderAll(payment_orders, f, R2(s))
        /\ now' = now + s[NReads]
        /\ act' = Act("filter", 0, "none", {})
    /\ order_rows' = Shown(payment_orders', filter_crypto')
    /\ confirm_buttons' = ConfirmButtons(payment_orders', filter_crypto')
    /\ rerun_requested' = "no"
    /\ UNCHANGED nextId

(* the sidebar's refresh button: the run stops at st.rerun() *)
RefreshPage(E) ==
    /\ Active(now)
    /\ \E r1 \in E.responses, s \in E.patterns :
        /\ crypto_prices' = get_crypto_prices(r1, crypto_prices)
        /\ now' = now + s[NReads]
        /\ act' = Act("refresh", 0, "none", {})
    /\ rerun_requested' = "above_filter"
    /\ UNCHANGED <<payment_orders, filter_crypto, nextId, order_rows,
                   confirm_buttons>>

(* the "create order" button; r1 is the sidebar's fetch, r2 create's own,  *)
(* tie_up the side the float quotient falls on when the exact quotient is  *)
(* a tie.  Orders are created in the early window.                         *)
CreateOrder(E) ==
    /\ now <= EarlyTicks
    /\ nextId <= E.orders
    /\ \E amount_usd \in E.amounts, crypto_type \in Cryptos,
          r1 \in E.responses, r2 \in E.responses, s \in E.patterns,
          tie_up \in BOOLEAN :
        LET cache == get_crypto_prices(r1, crypto_prices)
            order == create_payment_order(nextId, amount_usd, crypto_type,
                         get_crypto_prices(r2, cache), now + s[1], now + s[2],
                         tie_up)
        IN  /\ crypto_prices' = cache
            /\ payment_orders' =
                  RenderAll(Put(payment_orders, order), filter_crypto, R2(s))
            /\ now' = now + s[NReads]
            /\ act' = Act("create", order.id, FetchKind(r2), {})
    /\ nextId' = nextId + 1
    /\ order_rows' = Shown(payment_orders', filter_crypto)
    /\ confirm_buttons' = ConfirmButtons(payment_orders', filter_crypto)
    /\ rerun_requested' = "no"
    /\ UNCHANGED filter_crypto

(* the "check all orders" button: the sweep, and the run stops at          *)
(* st.rerun()                                                              *)
SweepAll(E) ==
    /\ Active(now)
    /\ \E r1 \in E.responses, s \in E.patterns :
        LET swept == SweepExpired(payment_orders, R1(s))
        IN  /\ crypto_prices' = get_crypto_prices(r1, crypto_prices)
            /\ payment_orders' = swept
            /\ now' = now + s[NReads]
            /\ act' = Act("sweep", 0,
                          IF act.op = "sweep" /\ act.t0 = now /\ s[NReads] = 0
                          THEN "again" ELSE "first",
                          {id \in DOMAIN swept : swept[id] # payment_orders[id]})
    /\ rerun_requested' = "above_filter"
    /\ UNCHANGED <<filter_crypto, nextId, order_rows, confirm_buttons>>

(* the "clear expired orders" button: the run stops at st.rerun() if       *)
(* something went, and goes on to the list if nothing did                  *)
ClearExpired(E) ==
    /\ Active(now)
    /\ \E r1 \in E.responses, s \in E.patterns :
        LET expired_orders ==
                {id \in DOMAIN payment_orders :
                    payment_orders[id].status = "expired"}
            cleared == Remove(payment_orders, expired_orders)
        IN  /\ crypto_prices' = get_crypto_prices(r1, crypto_prices)
            /\ payment_orders' =
                  IF expired_orders # {} THEN cleared
                  ELSE RenderAll(payment_orders, filter_crypto, R1(s))
            /\ confirm_buttons' =
                  IF expired_orders # {}
                  THEN ButtonsLeft(cleared, filter_crypto, 1)
                  ELSE ConfirmButtons(payment_orders', filter_crypto)
            /\ order_rows' =
                  IF expired_orders # {} THEN order_rows
                  ELSE Shown(payment_orders', filter_crypto)
            /\ rerun_requested' =
                  IF expired_orders # {} THEN "above_filter" ELSE "no"
            /\ now' = now + s[NReads]
            /\ act' = Act("clear", 0, "none", expired_orders)
    /\ UNCHANGED <<filter_crypto, nextId>>

(* an order's "check payment status" button: the list is rendered up to    *)
(* the order, the status check's answer is stored and the run stops at     *)
(* st.rerun()                                                              *)
CheckStatus(E) ==
    /\ Active(now)
    /\ \E id \in order_rows \cap Shown(payment_orders, filter_crypto),
          r1 \in E.responses, s \in E.patterns :
        LET listed == RenderUpTo(payment_orders, filter_crypto, R1(s), id)
            status == check_payment_status(listed[id].crypto_type)
            checked == [listed EXCEPT ![id] = UpdateStatus(@, status)]
        IN  /\ crypto_prices' = get_crypto_prices(r1, crypto_prices)
            /\ payment_orders' = checked
            /\ confirm_buttons' = ButtonsLeft(checked, filter_crypto, id)
            /\ now' = now + s[NReads]
            /\ act' = Act("check", id, status, {})
    /\ rerun_requested' = "below_filter"
    /\ UNCHANGED <<filter_crypto, nextId, order_rows>>

(* an order's "mark as completed" button, clicked on a page that shows it. *)
(* The run the click starts makes the button again only if the order is    *)
(* pending after its expiry check; then it stores 'confirmed' and stops at *)
(* st.rerun().  Otherwise no button is pressed and the run goes to its end *)
MarkConfirmed(E) ==
    /\ Active(now)
    /\ \E id \in confirm_buttons \cap Shown(payment_orders, filter_crypto),
          r1 \in E.responses, s \in E.patterns :
        LET listed == RenderUpTo(payment_orders, filter_crypto, R1(s), id)
            pressed == listed[id].status = "pending"
            marked == [listed EXCEPT ![id] = UpdateStatus(@, "confirmed")]
        IN  /\ crypto_prices' = get_crypto_prices(r1, crypto_prices)
            /\ payment_orders' =
                  IF pressed THEN marked
                  ELSE RenderAll(payment_orders, filter_crypto, R1(s))
            /\ confirm_buttons' =
                  IF pressed THEN ButtonsLeft(marked, filter_crypto, id)
                  ELSE ConfirmButtons(payment_orders', filter_crypto)
            /\ order_rows' =
                  IF pressed THEN order_rows
                  ELSE Shown(payment_orders', filter_crypto)
            /\ rerun_requested' = IF pressed THEN "below_filter" ELSE "no"
            /\ now' = now + s[NReads]
            /\ act' = Act("confirm", id,
                          IF pressed THEN "pressed" ELSE "no button", {})
    /\ UNCHANGED <<filter_crypto, nextId>>

(* an order's "delete order" button, clicked on a page that shows it: the  *)
(* list is rendered up to the order, the order is deleted and the run      *)
(* stops at st.rerun().  The row of an order that has left the ledger      *)
(* stays on the page until a run ends; the run a click on it starts makes  *)
(* no button for that order, so nothing is pressed and the run goes to its *)
(* end                                                                     *)
DeleteOrder(E) ==
    /\ Active(now)
    /\ \E id \in order_rows, r1 \in E.responses, s \in E.patterns :
        LET made == DeleteButtonMade(payment_orders, filter_crypto, id)
            listed == RenderUpTo(payment_orders, filter_crypto, R1(s), id)
            del == DeleteKey(listed, id)
        IN  /\ crypto_prices' = get_crypto_prices(r1, crypto_prices)
            /\ payment_orders' =
                  IF made THEN del.orders
                  ELSE RenderAll(payment_orders, filter_crypto, R1(s))
            /\ confirm_buttons' =
                  IF made THEN ButtonsLeft(del.orders, filter_crypto, id)
                  ELSE ConfirmButtons(payment_orders', filter_crypto)
            /\ order_rows' =
                  IF made THEN order_rows
                  ELSE Shown(payment_orders', filter_crypto)
            /\ rerun_requested' = IF made THEN "below_filter" ELSE "no"
            /\ now' = now + s[NReads]
            /\ act' = Act("delete", id,
                          IF ~made THEN "absent"
                          ELSE IF del.raised THEN "KeyError" ELSE "none", {})
    /\ UNCHANGED <<filter_crypto, nextId>>

(* The page over time: orders expire *)
Next ==
    \/ Wait
    \/ Rerun(LifeEnv)
    \/ EditWidget(LifeEnv)
    \/ SelectFilter(LifeEnv)
    \/ RefreshPage(LifeEnv)
    \/ CreateOrder(LifeEnv)
    \/ SweepAll(LifeEnv)
    \/ ClearExpired(LifeEnv)
    \/ CheckStatus(LifeEnv)
    \/ MarkConfirmed(LifeEnv)
    \/ DeleteOrder(LifeEnv)

Spec == Init /\ [][Next]_vars

(* The page while the price API answers, fails and changes its quotes *)
NextPricing ==
    \/ Rerun(PriceEnv)
    \/ EditWidget(PriceEnv)
    \/ SelectFilter(PriceEnv)
    \/ RefreshPage(PriceEnv)
    \/ CreateOrder(PriceEnv)
    \/ SweepAll(PriceEnv)
    \/ ClearExpired(PriceEnv)
    \/ CheckStatus(PriceEnv)
    \/ MarkConfirmed(PriceEnv)
    \/ DeleteOrder(PriceEnv)

SpecPricing == Init /\ [][NextPricing]_vars

(* create_payment_order, the ledger insertion and deletion statements and *)
(* the sidebar's price refresh, each executed on its own with arguments    *)
(* the page's widgets would not pass                                       *)
InitOps ==
    /\ payment_orders = <<>>
    /\ crypto_prices \in {InitialPrices, LaterQuote}
    /\ filter_crypto = "all"
    /\ now = 0
    /\ nextId = 1
    /\ rerun_requested = "no"
    /\ order_rows = {}
    /\ confirm_buttons = {}
    /\ act = [op |-> "init", id |-> 0, t0 |-> 0, note |-> "none", hit |-> {},
              run |-> "click"]

(* order = create_payment_order(...); payment_orders[order['id']] = order *)
DirectCreate ==
    /\ nextId <= MaxDirect
    /\ \E amount_usd \in DirectAmounts, crypto_type \in Cryptos,
          r \in DirectResponses, d1 \in 0..MaxDrift :
        \E d2 \in d1..MaxDrift, tie_up \in BOOLEAN :
            LET order == create_payment_order(nextId, amount_usd, crypto_type,
                             get_crypto_prices(r, crypto_prices),
                             now + d1, now + d2, tie_up)
            IN  /\ payment_orders' = Put(payment_orders, order)
                /\ now' = now + d2
                /\ act' = Act("create", order.id, FetchKind(r), {})
    /\ nextId' = nextId + 1
    /\ UNCHANGED <<crypto_prices, filter_crypto, rerun_requested, order_rows,
                   confirm_buttons>>

(* del payment_orders[order_id], order_id being a key of the ledger *)
DirectDelete ==
    /\ \E id \in DOMAIN payment_orders :
        LET del == DeleteKey(payment_orders, id)
        IN  /\ payment_orders' = del.orders
            /\ act' = Act("delete", id,
                          IF del.raised THEN "KeyError" ELSE "none", {})
    /\ UNCHANGED <<crypto_prices, filter_crypto, now, nextId, rerun_requested,
                   order_rows, confirm_buttons>>

(* crypto_prices = get_crypto_prices(); session_state.crypto_prices = it *)
DirectRefresh ==
    /\ \E r \in DirectResponses :
        /\ crypto_prices' = get_crypto_prices(r, crypto_prices)
        /\ act' = Act("refresh", 0, FetchKind(r), {})
    /\ UNCHANGED <<payment_orders, filter_crypto, now, nextId, rerun_requested,
                   order_rows, confirm_buttons>>

NextOps == DirectCreate \/ DirectDelete \/ DirectRefresh

SpecOps == InitOps /\ [][NextOps]_vars

TypeOK ==
    /\ DOMAIN payment_orders \subseteq 1..MaxOrders
    /\ \A id \in DOMAIN payment_orders : payment_orders[id].id = id
    /\ nextId \in 1..(MaxOrders + 1)
    /\ now \in 0..(MaxTime + 2 * MaxDrift)
    /\ rerun_requested \in {"no", "above_filter", "below_filter"}
    /\ order_rows \subseteq 1..MaxOrders
    /\ confirm_buttons \subseteq Shown(payment_orders, filter_crypto)

----------------------------------------------------------------------------
(* Properties *)

Terminal == {"confirmed", "expired", "failed"}

Kept == DOMAIN payment_orders \cap DOMAIN payment_orders'

(* C1: once an order is confirmed, expired or failed, no interaction       *)
(* changes its status again; it can only be deleted.                       *)
C1_TerminalStatusIsFinal ==
    [][\A id \in Kept :
          payment_orders[id].status \in Terminal
              => payment_orders'[id].status = payment_orders[id].status]_vars

(* C2: a sweep expires the pending orders whose expiry time has passed     *)
(* (strictly) and changes nothing else: every order pending and overdue    *)
(* when the sweep starts is expired after it, every order the sweep        *)
(* changes was pending, is overdue when the sweep ends and differs by its  *)
(* status alone, and no order is added or removed.  So a pending order     *)
(* created at T0 is still pending after a sweep at T0 + 29 min and expired *)
(* after a sweep at T0 + 31 min.                                           *)
C2_SweepExpiresOverduePending ==
    [][act'.op = "sweep" /\ act'.run = "click" =>
        /\ DOMAIN payment_orders' = DOMAIN payment_orders
        /\ \A id \in DOMAIN payment_orders :
            LET o == payment_orders[id]
                o2 == payment_orders'[id]
            IN  /\ o.status = "pending" /\ now > o.expires_at
                      => o2.status = "expired"
                /\ o2 # o
                      => /\ o.status = "pending"
                         /\ now' > o.expires_at
                         /\ o2 = [o EXCEPT !.status = "expired"]
                /\ o.status = "pending"
                      /\ now' <= o.created_at + (TTLMinutes - 1) * TicksPerMinute
                      => o2.status = "pending"
                /\ o.status = "pending"
                      /\ now >= o.created_at + (TTLMinutes + 1) * TicksPerMinute
                      => o2.status = "expired"]_vars

(* a sweep has expired one order and left another one pending *)
C2_Witness ==
    /\ act.op = "sweep"
    /\ \E i \in act.hit, j \in DOMAIN payment_orders :
        /\ i \in DOMAIN payment_orders
        /\ payment_orders[i].status = "expired"
        /\ payment_orders[j].status = "pending"
        /\ payment_orders[j].expires_at = now

(* C3: crypto_amount and crypto_price of an order never change while the   *)
(* order is in the ledger, whatever the price API answers.                 *)
C3_AmountAndPriceAreFrozen ==
    [][\A id \in Kept :
          /\ payment_orders'[id].crypto_amount = payment_orders[id].crypto_amount
          /\ payment_orders'[id].crypto_price = payment_orders[id].crypto_price]_vars

(* an order was confirmed after the cached price of its coin moved away    *)
(* from the price the order was created at                                 *)
C3_Witness ==
    /\ act.op = "confirm"
    /\ act.note = "pressed"
    /\ payment_orders[act.id].status = "confirmed"
    /\ payment_orders[act.id].crypto_price #
          crypto_prices[payment_orders[act.id].crypto_type]

(* C4: when create's price fetch fails, the order is still created and     *)
(* its crypto_price is the cached price of its coin.                       *)
C4_FailedFetchUsesCache ==
    act.op = "create" /\ act.note = "fail"
        => /\ act.id \in DOMAIN payment_orders
           /\ payment_orders[act.id].crypto_price =
                 crypto_prices[payment_orders[act.id].crypto_type]

(* an order was created while the fetch failed, at a cached price that an  *)
(* earlier refresh had stored                                              *)
C4_Witness ==
    /\ act.op = "create"
    /\ act.note = "fail"
    /\ act.id \in DOMAIN payment_orders
    /\ payment_orders[act.id].crypto_price #
          InitialPrices[payment_orders[act.id].crypto_type]

(* C5, as the claim states it: a click on the delete button of an order    *)
(* that is no longer in the ledger raises no error and leaves the ledger   *)
(* as it was, its set of ids and every field of every order.               *)
C5_DeleteAbsentIsSilent ==
    [][(act'.op = "delete" /\ act'.run = "click"
            /\ act'.id \notin DOMAIN payment_orders)
          => /\ act'.note = "absent"
             /\ payment_orders' = payment_orders]_vars

(* C5, amended: a click on the delete button of an order that is no longer *)
(* in the ledger raises no error and deletes nothing: the ledger keeps its *)
(* set of ids, and every order keeps its fields except that the run of the *)
(* click makes the expiry check of the orders it renders, so a pending     *)
(* order that is overdue when the run ends may have become expired.        *)
C5_DeleteAbsentDeletesNothing ==
    [][(act'.op = "delete" /\ act'.run = "click"
            /\ act'.id \notin DOMAIN payment_orders)
          => /\ act'.note = "absent"
             /\ DOMAIN payment_orders' = DOMAIN payment_orders
             /\ \A id \in DOMAIN payment_orders :
                   \/ payment_orders'[id] = payment_orders[id]
                   \/ /\ payment_orders[id].status = "pending"
                      /\ now' > payment_orders[id].expires_at
                      /\ payment_orders'[id] =
                            [payment_orders[id] EXCEPT !.status = "expired"]]_vars

(* the delete button of a deleted order was clicked before the page was    *)
(* rendered again, with another order in the ledger                        *)
C5_Witness ==
    /\ act.op = "delete"
    /\ act.note = "absent"
    /\ act.id \notin DOMAIN payment_orders
    /\ DOMAIN payment_orders # {}

C7_ExpiryIsCreationPlusTTL ==
    \A id \in DOMAIN payment_orders :
        payment_orders[id].expires_at = payment_orders[id].created_at + TTL

(* C8: a sweep that follows a sweep at the same time, with or without the  *)
(* first sweep's follow-up run in between, changes no order.               *)
C8_SweepIsIdempotent ==
    [][(act.op = "sweep" /\ act.t0 = now
            /\ act'.op = "sweep" /\ act'.run = "click" /\ now' = now)
          => payment_orders' = payment_orders]_vars

(* a second sweep ran at the time of the first, over a ledger in which the *)
(* first had expired an order and left another pending                     *)
C8_Witness ==
    /\ act.op = "sweep"
    /\ act.note = "again"
    /\ \E i, j \in DOMAIN payment_orders :
        /\ payment_orders[i].status = "expired"
        /\ payment_orders[j].status = "pending"

(* amount_usd * 10^decimals - crypto_amount * 10^decimals * price for a    *)
(* positive amount, or `far' when it is not within price of zero; the      *)
(* product is taken in two halves of the fraction's digits                 *)
Residual(o) ==
    LET lo == Pow10(crypto_configs[o.crypto_type].decimals \div 2)
        hi == Pow10(crypto_configs[o.crypto_type].decimals
                      - (crypto_configs[o.crypto_type].decimals \div 2))
        d == o.amount_usd - o.crypto_amount.whole * o.crypto_price
        e == d * hi - (o.crypto_amount.frac \div lo) * o.crypto_price
    IN  IF d \in 0..o.crypto_price /\ e \in (-1)..(o.crypto_price + 1)
        THEN [far |-> FALSE,
              r |-> e * lo - (o.crypto_amount.frac % lo) * o.crypto_price]
        ELSE [far |-> TRUE, r |-> 0]

(* C9: the crypto_amount of an order created for a positive amount is      *)
(* amount_usd / crypto_price rounded to the nearest number with the        *)
(* coin's decimals, crypto_price being the order's own price snapshot.     *)
C9_AmountIsRoundedQuotient ==
    \A id \in DOMAIN payment_orders :
        LET o == payment_orders[id]
        IN  o.amount_usd > 0
              => /\ ~o.crypto_amount.neg
                 /\ o.crypto_amount.frac \in
                       0..(Pow10(crypto_configs[o.crypto_type].decimals) - 1)
                 /\ ~Residual(o).far
                 /\ 2 * Residual(o).r <= o.crypto_price
                 /\ 2 * Residual(o).r >= -o.crypto_price

(* an order whose quotient had to be rounded up *)
C9_Witness ==
    \E id \in DOMAIN payment_orders :
        /\ payment_orders[id].amount_usd > 0
        /\ ~Residual(payment_orders[id]).far
        /\ Residual(payment_orders[id]).r < 0

(* C10: every order's status is pending, confirmed, expired or failed; an  *)
(* order just created is pending; the status check writes one of them.     *)
C10_StatusInSet ==
    /\ \A id \in DOMAIN payment_orders :
          payment_orders[id].status \in StatusSet
    /\ act.op = "create" => payment_orders[act.id].status = "pending"
    /\ act.op = "check" => act.note \in StatusSet

(* the status check has written the status of a confirmed or expired order *)
C10_Witness ==
    /\ act.op = "check"
    /\ act.id \in DOMAIN payment_orders
    /\ payment_orders[act.id].status = "pending"

(* C11: an order becomes confirmed only by its mark-confirmed button, and  *)
(* only if it was pending and its expiry time had not passed when the run  *)
(* the click started began: the run's expiry check of the order comes      *)
(* before its button, so a click made after expires_at confirms nothing.   *)
C11_ConfirmedOnlyWhilePendingAndInTime ==
    [][\A id \in Kept :
          payment_orders'[id].status = "confirmed"
              /\ payment_orders[id].status # "confirmed"
          => /\ act'.op = "confirm"
             /\ act'.id = id
             /\ act'.note = "pressed"
             /\ payment_orders[id].status = "pending"
             /\ now <= payment_orders[id].expires_at]_vars

(* the mark-confirmed button of a pending order was clicked after the      *)
(* order's expiry time: the run expired the order and confirmed nothing    *)
C11_Witness ==
    /\ act.op = "confirm"
    /\ act.note = "no button"
    /\ act.id \in DOMAIN payment_orders
    /\ payment_orders[act.id].status = "expired"
    /\ act.t0 > payment_orders[act.id].expires_at

====
